---- MODULE Spec2Model ----
(***************************************************************************)
(* Model of the gatekeeper visitor API (src/gatekeeper-advanced.go).       *)
(*                                                                         *)
(* Strings are sequences of lexical atoms, so that the SQL text the code   *)
(* builds by concatenation is really concatenated and then read back the   *)
(* way the SQL engine reads it.  The visitors table is the sequence of its *)
(* rows in insertion order.  Every handler is split at its database        *)
(* statements: each action runs one statement and all local code up to the *)
(* next statement or the response.                                         *)
(***************************************************************************)
EXTENDS Naturals, Sequences, FiniteSets

VARIABLES
    table,   \* rows of the visitors table, in insertion order
    req,     \* per worker: the request it handles (or handled last) and its response
    alive    \* FALSE once log.Fatalf has ended the process

vars == <<table, req, alive>>

\* Bound on the number of rows the table may hold.
MaxRows == 2

\* The workers gin may run handlers on at the same time.
Slots == {1, 2}

Quote == "'"
OrTok == " OR "

\* Request inputs: names and plates (the empty string included).
Names == {<<>>, <<"n">>}
Plates == {<<>>, <<"A">>, <<"A", Quote>>, <<Quote, Quote>>, <<Quote, OrTok, Quote, "1">>}

StatusOK == 200
StatusCreated == 201
StatusBadRequest == 400
StatusNotFound == 404
StatusConflict == 409
StatusInternalServerError == 500

\* type visitors struct { Name, Plate }
Visitor(name, plate) == [name |-> name, plate |-> plate]

Idle ==
    [kind |-> "none", name |-> <<>>, plate |-> <<>>, pc |-> "idle", status |-> 0,
     body |-> <<>>, msg |-> "", err |-> "none", conns |-> 0, again |-> FALSE]

\* The worker's last request was a DELETE of this plate that answered 200.
JustRemoved(r, plate) ==
    r.kind = "DELETE" /\ r.pc = "done" /\ r.status = StatusOK /\ r.plate = plate

(***************************************************************************)
(* The SQL text and how the engine reads it.                               *)
(***************************************************************************)

\* ... WHERE plate = '` + plate + `'   (the variable tail of the statement)
WherePlateText(plate) == <<Quote>> \o plate \o <<Quote>>

ParseError == [ok |-> FALSE, lits |-> <<>>]

\* Reads a string literal whose opening quote is before position j: a doubled
\* quote is one quote character, a single quote closes the literal.
RECURSIVE ScanLiteral(_, _, _)
ScanLiteral(text, j, acc) ==
    IF j > Len(text) THEN [ok |-> FALSE, lit |-> acc, next |-> j]
    ELSE IF text[j] = Quote
         THEN IF j + 1 <= Len(text) /\ text[j + 1] = Quote
              THEN ScanLiteral(text, j + 2, Append(acc, Quote))
              ELSE [ok |-> TRUE, lit |-> acc, next |-> j + 1]
         ELSE ScanLiteral(text, j + 1, Append(acc, text[j]))

\* The rest of the condition: zero or more  OR '<literal>'.
RECURSIVE ParseOrs(_, _, _)
ParseOrs(text, i, lits) ==
    IF i > Len(text) THEN [ok |-> TRUE, lits |-> lits]
    ELSE IF text[i] = OrTok /\ i + 1 <= Len(text) /\ text[i + 1] = Quote
         THEN LET r == ScanLiteral(text, i + 2, <<>>)
              IN  IF r.ok THEN ParseOrs(text, r.next, Append(lits, r.lit))
                  ELSE ParseError
         ELSE ParseError

\* plate = '<literal>' [OR '<literal>']...   or a syntax error.
ParseWhere(text) ==
    IF Len(text) = 0 \/ text[1] # Quote THEN ParseError
    ELSE LET r == ScanLiteral(text, 2, <<>>)
         IN  IF r.ok THEN ParseOrs(text, r.next, <<r.lit>>) ELSE ParseError

\* A string literal used as a condition is true when it reads as a non-zero number.
Truthy(lit) == Len(lit) > 0 /\ lit[1] = "1"

RowMatches(row, lits) ==
    \/ row.plate = lits[1]
    \/ \E k \in 2..Len(lits) : Truthy(lits[k])

(***************************************************************************)
(* Registry operations.                                                    *)
(***************************************************************************)

\* checkPlateAlreadyInDB: the query's error is dropped, so a failed query leaves
\* rows nil and rows.Next() panics; otherwise true iff a returned row has
\* exactly the given plate.
CheckPlateAlreadyInDB(tab, givenPlate, queryErr) ==
    LET q == ParseWhere(WherePlateText(givenPlate))
    IN  IF queryErr \/ ~q.ok
        THEN [panic |-> TRUE, found |-> FALSE]
        ELSE [panic |-> FALSE,
              found |-> \E i \in 1..Len(tab) :
                            RowMatches(tab[i], q.lits) /\ tab[i].plate = givenPlate]

AddNewVisitorToDB_swapped(tab, visitor) ==
    Append(tab, [name |-> visitor.plate, plate |-> visitor.name])

\* addNewVisitorToDB: INSERT INTO visitors (name, plate) VALUES (?, ?)
AddNewVisitorToDB(tab, visitor) == Append(tab, visitor)

\* getVisitorsFromDB: all rows for the empty plate, else the rows WHERE plate = ?
GetVisitorsFromDB(tab, EnteredPlate) ==
    IF EnteredPlate = <<>> THEN tab
    ELSE SelectSeq(tab, LAMBDA r : r.plate = EnteredPlate)

DeleteFromDB_noop(tab, plate) == tab

\* DELETE FROM visitors WHERE plate = '` + plate + `'
DeleteFromDB(tab, plate) ==
    LET q == ParseWhere(WherePlateText(plate))
    IN  SelectSeq(tab, LAMBDA r : ~RowMatches(r, q.lits))

\* initializeDB: a handle on the database, or an error.
InitializeDB(fault) == [err |-> fault = "connect"]

Done(r, status, msg, body, err) ==
    [r EXCEPT !.pc = "done", !.status = status, !.msg = msg, !.body = body,
              !.err = err, !.conns = 0]

\* log.Fatalf: os.Exit(1), deferred Close calls do not run.
Fatal(r, err, conns) ==
    [r EXCEPT !.pc = "fatal", !.err = err, !.conns = conns]

CanStart(s) == alive /\ req[s].pc \in {"idle", "done"}

\* Rows that requests past their existence check are about to insert.
Pending(s) == Cardinality({t \in Slots \ {s} : req[t].pc = "insert"})

Init ==
    /\ table = <<>>
    /\ req = [s \in Slots |-> Idle]
    /\ alive = TRUE

(***************************************************************************)
(* Handlers.  The fault parameter is what the database does to the request: *)
(* "none", or the call that fails ("bind" is a body gin cannot bind).       *)
(***************************************************************************)

\* GET /ping
Ping(s) ==
    /\ CanStart(s)
    /\ req' = [req EXCEPT ![s] = Done([Idle EXCEPT !.kind = "PING"], StatusOK, "pong", <<>>, "none")]
    /\ UNCHANGED <<table, alive>>

\* GET /visitors and GET /visitors/:plate
GetVisitors(s, plate, fault) ==
    /\ CanStart(s)
    /\ LET r == [Idle EXCEPT !.kind = "GET", !.plate = plate]
           results == GetVisitorsFromDB(table, plate)
       IN  IF InitializeDB(fault).err
           THEN /\ req' = [req EXCEPT ![s] = Fatal(r, "connect", 0)]
                /\ alive' = FALSE
           ELSE /\ alive' = alive
                /\ req' = [req EXCEPT ![s] =
                     IF fault = "query"
                     THEN Done(r, StatusInternalServerError, "", <<>>, "query")
                     ELSE IF results = <<>>
                     THEN Done(r, StatusNotFound, "Plate is not found in the database", <<>>, "none")
                     ELSE Done(r, StatusOK, "", results, "none")]
    /\ UNCHANGED table

\* POST /visitors up to and including the existence check
AddVisitor(s, name, plate, fault) ==
    /\ CanStart(s)
    /\ LET r == [Idle EXCEPT !.kind = "POST", !.name = name, !.plate = plate]
           chk == CheckPlateAlreadyInDB(table, plate, fault = "query")
       IN  IF fault = "bind"
           THEN /\ req' = [req EXCEPT ![s] =
                     Done([Idle EXCEPT !.kind = "POST"], StatusBadRequest, "", <<>>, "bind")]
                /\ alive' = alive
           ELSE IF name = <<>> \/ plate = <<>>
           THEN /\ req' = [req EXCEPT ![s] =
                     Done(r, StatusBadRequest, "Name and plate are required", <<>>, "none")]
                /\ alive' = alive
           ELSE IF InitializeDB(fault).err
           THEN /\ req' = [req EXCEPT ![s] = Fatal(r, "connect", 0)]
                /\ alive' = FALSE
           ELSE IF chk.panic
           THEN /\ req' = [req EXCEPT ![s] =
                     Done(r, StatusInternalServerError, "",
                          <<>>, IF fault = "query" THEN "query" ELSE "syntax")]
                /\ alive' = alive
           ELSE IF chk.found
           THEN /\ req' = [req EXCEPT ![s] =
                     Done(r, StatusConflict, "Plate already in database", <<>>, "none")]
                /\ alive' = alive
           ELSE /\ Len(table) + Pending(s) < MaxRows   \* the model's bound on the table
                /\ req' = [req EXCEPT ![s] = [r EXCEPT !.pc = "insert", !.conns = 1]]
                /\ alive' = alive
    /\ UNCHANGED table

\* POST /visitors from the call of addNewVisitorToDB to the response
AddVisitorInsert(s, fault) ==
    /\ alive
    /\ req[s].pc = "insert"
    /\ LET r == req[s]
           newVisitor == Visitor(r.name, r.plate)
       IN  IF InitializeDB(fault).err
           THEN /\ req' = [req EXCEPT ![s] = Fatal(r, "connect", 1)]
                /\ alive' = FALSE
                /\ table' = table
           ELSE IF fault = "insert"
           THEN /\ req' = [req EXCEPT ![s] = Fatal(r, "insert", 2)]
                /\ alive' = FALSE
                /\ table' = table
           ELSE /\ table' = AddNewVisitorToDB(table, newVisitor)
                /\ req' = [req EXCEPT ![s] =
                     Done(r, StatusCreated, "", <<newVisitor>>, "none")]
                /\ alive' = alive

\* DELETE /visitors/:plate up to and including the existence check
RemoveVisitor(s, plate, fault) ==
    /\ CanStart(s)
    /\ plate # <<>>
    /\ LET r == [Idle EXCEPT !.kind = "DELETE", !.plate = plate,
                              !.again = JustRemoved(req[s], plate)]
           chk == CheckPlateAlreadyInDB(table, plate, fault = "query")
       IN  IF InitializeDB(fault).err
           THEN /\ req' = [req EXCEPT ![s] = Fatal(r, "connect", 0)]
                /\ alive' = FALSE
           ELSE /\ alive' = alive
                /\ req' = [req EXCEPT ![s] =
                     IF chk.panic
                     THEN Done(r, StatusInternalServerError, "",
                               <<>>, IF fault = "query" THEN "query" ELSE "syntax")
                     ELSE IF ~chk.found
                     THEN Done(r, StatusConflict, "Plate is not found in the database", <<>>, "none")
                     ELSE [r EXCEPT !.pc = "delete", !.conns = 1]]
    /\ UNCHANGED table

\* DELETE /visitors/:plate from the DELETE statement to the response
RemoveVisitorDelete(s, fault) ==
    /\ alive
    /\ req[s].pc = "delete"
    /\ LET r == req[s]
       IN  IF fault = "delete" \/ ~ParseWhere(WherePlateText(r.plate)).ok
           THEN /\ req' = [req EXCEPT ![s] =
                     Done(r, StatusInternalServerError, "Internal server error", <<>>, "delete")]
                /\ table' = table
           ELSE /\ table' = DeleteFromDB(table, r.plate)
                /\ req' = [req EXCEPT ![s] = Done(r, StatusOK, "Plate removed", <<>>, "none")]
    /\ UNCHANGED alive

\* The requests a client can send and the faults the database can answer with.
PostInputs ==
    {in \in [name : Names, plate : Plates, fault : {"none", "bind", "connect", "query"}] :
        /\ in.fault = "bind" => (in.name = <<>> /\ in.plate = <<>>)
        /\ in.fault \in {"connect", "query"} => (in.name # <<>> /\ in.plate # <<>>)}

Handle(s) ==
    \/ Ping(s)
    \/ \E plate \in Plates, fault \in {"none", "connect", "query"} :
           GetVisitors(s, plate, fault)
    \/ \E in \in PostInputs : AddVisitor(s, in.name, in.plate, in.fault)
    \/ \E fault \in {"none", "connect", "insert"} : AddVisitorInsert(s, fault)
    \/ \E plate \in Plates \ {<<>>}, fault \in {"none", "connect", "query"} :
           RemoveVisitor(s, plate, fault)
    \/ \E fault \in {"none", "delete"} : RemoveVisitorDelete(s, fault)

\* Requests handled concurrently on all workers.
Next == \E s \in Slots : Handle(s)

Spec == Init /\ [][Next]_vars

\* Requests handled one at a time: a single worker.
NextSeq == Handle(1)

SpecSeq == Init /\ [][NextSeq]_vars

\* Two POST requests, one per worker, each sent once and handled concurrently.
NextPosts ==
    \E s \in Slots :
        \/ /\ req[s].pc = "idle"
           /\ \E in \in PostInputs : AddVisitor(s, in.name, in.plate, in.fault)
        \/ \E fault \in {"none", "connect", "insert"} : AddVisitorInsert(s, fault)

SpecPosts == Init /\ [][NextPosts]_vars

(***************************************************************************)
(* Properties.                                                             *)
(***************************************************************************)

HasPlate(tab, plate) == \E i \in 1..Len(tab) : tab[i].plate = plate

OtherRows(tab, plate) == SelectSeq(tab, LAMBDA r : r.plate # plate)

\* The worker takes up a new request of the given kind in this step.
Starts(s, kind) == CanStart(s) /\ req'[s].kind = kind /\ req'[s] # req[s]

\* The database answered every call of the request.
DbAnswered(r) == r.err \notin {"bind", "connect", "query", "insert", "delete"}

\* C1: two concurrent POSTs with non-empty names and the same new plate do not
\* both answer 201: one answers 201, the other 409, and the table ends with
\* exactly one row for the plate.
C1_OnlyOneCreated ==
    (/\ \A s \in Slots : /\ req[s].kind = "POST" /\ req[s].pc = "done"
                         /\ req[s].err = "none" /\ req[s].name # <<>>
     /\ req[1].plate = req[2].plate /\ req[1].plate # <<>>)
    => /\ {req[1].status, req[2].status} = {StatusCreated, StatusConflict}
       /\ Len(GetVisitorsFromDB(table, req[1].plate)) = 1

\* What one step of a POST on worker 1 must do.
C2_PostStep ==
    LET r == req'[1]
        v == Visitor(req[1].name, req[1].plate)
    IN  /\ (Starts(1, "POST") /\ DbAnswered(r)) =>
              IF r.name = <<>> \/ r.plate = <<>>
              THEN r.pc = "done" /\ r.status = StatusBadRequest /\ table' = table
              ELSE IF HasPlate(table, r.plate)
              THEN r.pc = "done" /\ r.status = StatusConflict /\ table' = table
              ELSE r.pc = "insert" /\ table' = table
        /\ (req[1].pc = "insert" /\ r.pc # "insert" /\ DbAnswered(r)) =>
              /\ r.pc = "done" /\ r.status = StatusCreated /\ r.body = <<v>>
              /\ table' = Append(table, v)

\* C2: a POST handled alone answers 400 for an empty name or plate and 409 for
\* a plate some row already has, both leaving the table unchanged; otherwise it
\* adds exactly the row (name, plate) and answers 201 with the input as body.
C2_PostContract == [][C2_PostStep]_vars

\* What a GET on worker 1 must do.
C3_GetStep ==
    LET r == req'[1]
        m == GetVisitorsFromDB(table, r.plate)
    IN  (Starts(1, "GET") /\ DbAnswered(r)) =>
            /\ table' = table
            /\ r.pc = "done"
            /\ IF m # <<>> THEN r.status = StatusOK /\ r.body = m
               ELSE IF r.plate = <<>> THEN r.status = StatusOK /\ r.body = <<>>
               ELSE r.status = StatusNotFound /\ r.msg # ""

\* C3: a lookup matching no row answers 404 with a message on GET
\* /visitors/{plate} and 200 with an empty list on GET /visitors; with matching
\* rows both answer 200 with exactly those rows; the table is never changed.
C3_LookupByRoute == [][C3_GetStep]_vars

\* The INSERT of worker s's visitor has just run.
Inserted(s) == req[s].pc = "insert" /\ req'[s].pc = "done"

\* C4 (as stated): in every table state, also one that already holds rows with
\* the visitor's plate, the insert followed by a listing by that plate returns
\* exactly one record, equal to the visitor.
C4_InsertThenListAnyTable ==
    [][\A s \in Slots : Inserted(s) =>
          GetVisitorsFromDB(table', req[s].plate)
              = <<Visitor(req[s].name, req[s].plate)>>]_vars

\* C4 (amended): in every table state that holds no row with the visitor's
\* plate, the insert followed by a listing by that plate returns exactly one
\* record, equal to the visitor.
C4_InsertThenListFreshPlate ==
    [][\A s \in Slots : (Inserted(s) /\ ~HasPlate(table, req[s].plate)) =>
          GetVisitorsFromDB(table', req[s].plate)
              = <<Visitor(req[s].name, req[s].plate)>>]_vars

C4_Witness ==
    \E s \in Slots :
        /\ req[s].kind = "POST" /\ req[s].pc = "done" /\ req[s].status = StatusCreated
        /\ GetVisitorsFromDB(table, req[s].plate) = <<Visitor(req[s].name, req[s].plate)>>

\* C5: once DELETE /visitors/p has answered 200 no row with plate p remains
\* (the listing by p is empty, the existence check is false) and every row
\* with another plate is left untouched.
C5_DeleteRemovesOnlyPlate ==
    [][\A s \in Slots :
          (req[s].pc = "delete" /\ req'[s].pc = "done" /\ req'[s].status = StatusOK) =>
              /\ GetVisitorsFromDB(table', req[s].plate) = <<>>
              /\ ~CheckPlateAlreadyInDB(table', req[s].plate, FALSE).found
              /\ OtherRows(table', req[s].plate) = OtherRows(table, req[s].plate)]_vars

\* C6 (as stated): a second DELETE of the same plate, right after the first,
\* reports no error and leaves the table as the first call left it.
C6_SecondDeleteNoError ==
    [][(Starts(1, "DELETE") /\ req'[1].again) =>
          /\ ~(req'[1].pc = "done" /\ req'[1].status >= StatusBadRequest)
          /\ table' = table]_vars

\* C6 (amended): right after a DELETE of plate p that answered 200, a second
\* DELETE of p never reaches the DELETE statement and leaves the table as the
\* first call left it; when the database answers its existence query it is
\* answered 409 with the not-found message.
C6_SecondDeleteConflict ==
    [][(Starts(1, "DELETE") /\ req'[1].again) =>
          /\ req'[1].pc # "delete"
          /\ table' = table
          /\ DbAnswered(req'[1]) =>
                /\ req'[1].pc = "done" /\ req'[1].status = StatusConflict
                /\ req'[1].msg = "Plate is not found in the database"]_vars

C6_Witness ==
    /\ req[1].kind = "DELETE" /\ req[1].again
    /\ req[1].pc = "done" /\ req[1].status = StatusConflict

\* What one step of a DELETE on worker 1 must do.
C7_DeleteStep ==
    LET r == req'[1]
    IN  /\ (Starts(1, "DELETE") /\ DbAnswered(r)) =>
              /\ table' = table
              /\ r.status # StatusOK
              /\ ~HasPlate(table, r.plate) =>
                    /\ r.pc = "done" /\ r.status = StatusConflict /\ r.msg # ""
        /\ (req[1].pc = "delete" /\ r.status = StatusOK) => HasPlate(table, r.plate)

\* C7: DELETE /visitors/{plate} for a plate with no row answers 409 with a
\* message without issuing the DELETE statement or changing the table; it
\* answers 200 only when the existence check found a row with that plate.
C7_DeleteAbsentConflict == [][C7_DeleteStep]_vars

\* C8: a database failure in the insert step of POST /visitors is answered
\* with 500 and the server process stays alive.
C8_InsertFailureAnswered ==
    \A s \in Slots :
        (req[s].kind = "POST" /\ req[s].err = "insert") =>
            /\ alive
            /\ req[s].pc = "done" /\ req[s].status = StatusInternalServerError

\* C9: on every exit path of a handler, the fatal ones included, the
\* connections the request opened are closed when it ends: no connection is
\* open while no request is in flight.
C9_NoOpenConnectionAtRest ==
    (\A s \in Slots : req[s].pc \notin {"insert", "delete"})
        => \A s \in Slots : req[s].conns = 0

\* C10: starting from the empty table, requests handled one at a time leave at
\* most one row per plate.
C10_OneRowPerPlate ==
    \A i, j \in 1..Len(table) : table[i].plate = table[j].plate => i = j

====
